---- MODULE Spec2Model ----
(***************************************************************************)
(* A model of mates (src/mates/cli.rs): the index builder, the query       *)
(* engine with its three projections, the contact creator and the edit     *)
(* workflow, as run by one invocation of cli_main.                         *)
(*                                                                         *)
(* A Rust string is a sequence of one-character strings; a few multi-      *)
(* character tokens (".vcf", message prefixes) stand for fixed text that   *)
(* holds no tab, newline, space or angle bracket.  Option<T> is a sequence *)
(* of length 0 (None) or 1 (Some).                                         *)
(***************************************************************************)
EXTENDS Integers, Sequences, FiniteSets, TLC

\* ------------------------------------------------------------------ bounds
MaxHdrLen == 4
MaxLines == 2
MaxEntries == 3
NumUids == 2
MaxCollisions == 2

\* ------------------------------------------------------------- characters
TAB == "\t"
NL == "\n"
SP == " "
LT == "<"
GT == ">"
Whitespace == {SP, TAB, NL}

None == << >>
Some(x) == << x >>

\* -------------------------------------------------------- string helpers
\* Index of the first / last occurrence of character c in s, 0 if none.
FirstIndex(s, c) ==
    IF \E i \in 1..Len(s) : s[i] = c
    THEN CHOOSE i \in 1..Len(s) : s[i] = c /\ \A j \in 1..(i-1) : s[j] # c
    ELSE 0

LastIndex(s, c) ==
    IF \E i \in 1..Len(s) : s[i] = c
    THEN CHOOSE i \in 1..Len(s) : s[i] = c /\ \A j \in (i+1)..Len(s) : s[j] # c
    ELSE 0

\* str::split(c): every segment between separators, in order; never empty.
RECURSIVE split(_, _)
split(s, c) ==
    LET i == FirstIndex(s, c)
    IN IF i = 0 THEN << s >>
       ELSE << SubSeq(s, 1, i-1) >> \o split(SubSeq(s, i+1, Len(s)), c)

\* str::rsplitn(count, c) of the 2015 standard library: splits from the
\* right at most count times, the last item being the unsplit remainder.
RECURSIVE rsplitn(_, _, _)
rsplitn(s, count, c) ==
    LET i == LastIndex(s, c)
    IN IF count = 0 \/ i = 0 THEN << s >>
       ELSE << SubSeq(s, i+1, Len(s)) >> \o rsplitn(SubSeq(s, 1, i-1), count-1, c)

\* str::trim_left_matches(c) / trim_right_matches(c): strip every leading /
\* trailing occurrence of c.
RECURSIVE trim_left_matches(_, _)
trim_left_matches(s, c) ==
    IF s # << >> /\ Head(s) = c THEN trim_left_matches(Tail(s), c) ELSE s

RECURSIVE trim_right_matches(_, _)
trim_right_matches(s, c) ==
    IF s # << >> /\ s[Len(s)] = c
    THEN trim_right_matches(SubSeq(s, 1, Len(s)-1), c)
    ELSE s

\* str::trim(): strip leading and trailing whitespace.
RECURSIVE trim(_)
trim(s) ==
    IF s # << >> /\ Head(s) \in Whitespace THEN trim(Tail(s))
    ELSE IF s # << >> /\ s[Len(s)] \in Whitespace THEN trim(SubSeq(s, 1, Len(s)-1))
    ELSE s

\* All sequences over alphabet A of length at most n.
RECURSIVE SeqsUpTo(_, _)
SeqsUpTo(A, n) ==
    IF n = 0 THEN { << >> }
    ELSE LET shorter == SeqsUpTo(A, n-1)
         IN shorter \cup { Append(s, a) : s \in shorter, a \in A }

\* ------------------------------------------------------------------ paths
MatesDir == << "/", "m" >>        \* $MATES_DIR
OtherDir == << "/", "w" >>        \* some other working directory
Directories == { MatesDir, OtherDir }

Digits == << "1", "2", "3", "4", "5", "6" >>
Uids == { << Digits[k] >> : k \in 1..NumUids }

\* format!("{}.vcf", uid)
VcfName(uid) == uid \o << ".vcf" >>

\* Path::join: an absolute right-hand side replaces the left, an empty one
\* leaves it as it is.
PathJoin(dir, rel) ==
    IF rel = << >> THEN dir
    ELSE IF Head(rel) = "/" THEN rel
    ELSE dir \o << "/" >> \o rel

\* The regular files the model's filesystem can hold.
FsPaths ==
    { PathJoin(MatesDir, VcfName(u)) : u \in Uids }
        \cup { PathJoin(OtherDir, VcfName(<< "1" >>)) }

P1 == PathJoin(MatesDir, VcfName(<< "1" >>))
P2 == PathJoin(MatesDir, VcfName(<< "2" >>))

\* A file's content before any command runs, and what an editor may leave.
OldContent == << "x", NL >>
EditedContents == { << >>, << SP, NL >>, << "y", NL >>, << SP, "y" >> }

\* Every filesystem: each path absent (None) or holding OldContent.
FsStates == [ FsPaths -> { None, Some(OldContent) } ]
EmptyFs == [ p \in FsPaths |-> None ]

\* ------------------------------------------------------------------ inputs
Commands ==
    { "index", "mutt-query", "file-query", "email-query", "add", "edit", "help", "" }
HelpCommands == { "help", "--help", "-h" }
QueryCommands == { "mutt-query", "file-query", "email-query" }

\* From-header values handed to parse_from_header.
HdrAlphabet == { "a", SP, LT, GT }
Headers == SeqsUpTo(HdrAlphabet, MaxHdrLen)

\* Arguments of `edit`: nothing, a file name, an absolute path, a search string.
EditArgs == { << >>, VcfName(<< "1" >>), P2, << "q" >> }

\* Lines a filter may print: empty, address only, no filepath, a full row,
\* a row without name, a row without address and with a surplus field.
LineSet ==
    { << >>,
      << "a" >>,
      << "a", TAB, "n" >>,
      << "a", TAB, "n", TAB >> \o P1,
      << "b", TAB, TAB >> \o P2,
      << TAB, "n", TAB >> \o P1 \o << TAB, "z" >> }

RECURSIVE JoinLines(_)
JoinLines(ls) ==
    IF ls = << >> THEN << >>
    ELSE IF Len(ls) = 1 THEN Head(ls)
    ELSE Head(ls) \o << NL >> \o JoinLines(Tail(ls))

\* What the filter subprocess may write to its stdout.
Outputs ==
    { JoinLines(ls) \o t : ls \in SeqsUpTo(LineSet, MaxLines), t \in { << >>, << NL >> } }

\* What readdir, File::open and parse_component can make of one entry: not a
\* regular file, unreadable, unparsable, or a card with at most one FN and
\* its EMAIL values in order.
NoCard == [ fn |-> None, emails |-> << >> ]
EntryShapes ==
    { [ kind |-> "dir", card |-> NoCard ],
      [ kind |-> "unreadable", card |-> NoCard ],
      [ kind |-> "garbage", card |-> NoCard ],
      [ kind |-> "card", card |-> [ fn |-> None, emails |-> << << "a" >> >> ] ],
      [ kind |-> "card", card |-> [ fn |-> Some(<< "n" >>), emails |-> << >> ] ],
      [ kind |-> "card", card |-> [ fn |-> Some(<< "n" >>), emails |-> << << "a" >> >> ] ],
      [ kind |-> "card",
        card |-> [ fn |-> Some(<< "n" >>), emails |-> << << "a" >>, << "b" >> >> ] ] }

\* Directory listings: entry k is MATES_DIR/<k>.vcf.
Listings ==
    { [ k \in 1..Len(sh) |->
          [ path |-> PathJoin(MatesDir, VcfName(<< Digits[k] >>)),
            kind |-> sh[k].kind, card |-> sh[k].card ] ]
      : sh \in SeqsUpTo(EntryShapes, MaxEntries) }

StaleIndex == << "s", TAB, "s", TAB, "s", NL >>

\* ------------------------------------------------------------------- state
VARIABLES
    pc,            \* position in cli_main and the function it called
    cmd,           \* args[1]
    query,         \* args[2]
    has_editor,    \* MATES_EDITOR or EDITOR is set
    cwd,           \* the process's working directory
    fs,            \* regular files under the two directories
    fs0,           \* fs as it was when the process started
    sender,        \* add: what read_sender_from_email finds on stdin
    dir_kind,      \* index: what MATES_DIR is
    create_ok,     \* index: whether File::create(outfile) succeeds
    index_file,    \* index: content of the file at MATES_INDEX
    entries,       \* index: readdir(dir) with each entry's read/parse outcome
    pos,           \* index: 1-based position of the scan in entries
    pending,       \* index: EMAIL values of the current entry still to write
    linebuffer,    \* IndexIterator.linebuffer
    output,        \* Some(captured stdout of the filter), once captured
    yielded,       \* items returned by IndexIterator::next so far
    results,       \* edit: candidate paths
    opened,        \* edit: Some(path the editor was started on)
    contact,       \* add: (fullname, email) of parse_from_header
    uid,           \* add: the identifier generated last
    collisions,    \* add: identifiers discarded so far (saturating)
    result,        \* return value of the command's function
    exit_status,   \* os::set_exit_status
    stdout         \* lines printed

vars ==
    << pc, cmd, query, has_editor, cwd, fs, fs0, sender, dir_kind, create_ok,
       index_file, entries, pos, pending, linebuffer, output, yielded, results,
       opened, contact, uid, collisions, result, exit_status, stdout >>

NoContact == [ fullname |-> None, email |-> None ]

\* The process starts with its arguments, its environment and the files
\* around it.  Only what the command reads is varied: the other variables
\* start at a fixed value the command never looks at.
Init ==
    /\ pc = "cli_main"
    /\ cmd \in Commands
    /\ query \in (IF cmd = "edit" THEN EditArgs
                  ELSE IF cmd \in QueryCommands THEN { << "q" >> }
                  ELSE { << >> })
    /\ has_editor \in (IF cmd = "edit" THEN BOOLEAN ELSE { TRUE })
    /\ cwd \in (IF cmd = "edit" THEN Directories ELSE { MatesDir })
    /\ fs \in (IF cmd = "edit" THEN FsStates
               ELSE IF cmd = "add"
                    THEN { f \in FsStates : f[PathJoin(OtherDir, VcfName(<< "1" >>))] = None }
               ELSE { EmptyFs })
    /\ fs0 = fs
    /\ sender \in (IF cmd = "add" THEN { None } \cup { Some(h) : h \in Headers }
                   ELSE { None })
    /\ dir_kind \in (IF cmd = "index" THEN { "dir", "file", "unlistable" } ELSE { "dir" })
    /\ create_ok \in (IF cmd = "index" THEN BOOLEAN ELSE { TRUE })
    /\ index_file \in (IF cmd = "index" THEN { << >>, StaleIndex } ELSE { << >> })
    /\ entries \in (IF cmd = "index" /\ dir_kind = "dir" THEN Listings ELSE { << >> })
    /\ pos = 1
    /\ pending = << >>
    /\ linebuffer = << >>
    /\ output = None
    /\ yielded = << >>
    /\ results = << >>
    /\ opened = None
    /\ contact = NoContact
    /\ uid = << >>
    /\ collisions = 0
    /\ result = "none"
    /\ exit_status = 0
    /\ stdout = << >>

\* --------------------------------------------------------- pure functions
\* parse_from_header had it split at the first space instead of the last.
parse_from_header_first_space(s) ==
    LET i == FirstIndex(s, SP)
        token == IF i = 0 THEN s ELSE SubSeq(s, i+1, Len(s))
    IN [ fullname |-> IF i = 0 THEN None ELSE Some(SubSeq(s, 1, i-1)),
         email |-> Some(trim_right_matches(trim_left_matches(token, LT), GT)) ]

\* parse_from_header: (fullname, email) of a From-header value.
parse_from_header(s) ==
    LET parts == rsplitn(s, 1, SP)
    IN [ fullname |-> IF Len(parts) >= 2 THEN Some(parts[2]) ELSE None,
         email |-> Some(trim_right_matches(trim_left_matches(parts[1], LT), GT)) ]

\* generate_contact: a VCARD with FN and EMAIL when given, and UID.
generate_contact(u, fullname, email) ==
    [ FN |-> fullname, EMAIL |-> email, UID |-> Some(u) ]

\* write_component: the card's properties as text, one per line.
write_component(c) ==
    << "BEGIN:VCARD", NL >>
        \o (IF c.FN = None THEN << >> ELSE << "FN:" >> \o c.FN[1] \o << NL >>)
        \o (IF c.EMAIL = None THEN << >> ELSE << "EMAIL:" >> \o c.EMAIL[1] \o << NL >>)
        \o << "UID:" >> \o c.UID[1] \o << NL >>
        \o << "END:VCARD", NL >>

\* format!("{}\t{}\t{}\n", email, name, entry.display())
IndexLine(email, name, path) ==
    email \o << TAB >> \o name \o << TAB >> \o path \o << NL >>

\* IndexItem::new: the first three tab-separated fields, "" when missing.
IndexItemNew(line) ==
    LET parts == split(line, TAB)
        field(k) == IF k <= Len(parts) THEN parts[k] ELSE << >>
    IN [ email |-> field(1), name |-> field(2), filepath |-> field(3) ]

\* IndexIterator::new had it dropped the empty lines.
IndexIteratorNewSkipsEmpty(out) == SelectSeq(split(out, NL), LAMBDA l : l # << >>)

\* IndexIterator::new: the output split on newline.
IndexIteratorNew(out) == split(out, NL)

\* IndexIterator::next had it taken the first line of the buffer.
IteratorNextFromFront(lb) ==
    IF lb = << >> THEN [ item |-> None, rest |-> << >> ]
    ELSE [ item |-> Some(IndexItemNew(Head(lb))), rest |-> Tail(lb) ]

\* IndexIterator::next: pops the last line of the buffer.
IteratorNext(lb) ==
    IF lb = << >> THEN [ item |-> None, rest |-> << >> ]
    ELSE [ item |-> Some(IndexItemNew(lb[Len(lb)])), rest |-> SubSeq(lb, 1, Len(lb) - 1) ]

\* mutt_query's test had it looked at the address alone.
MuttKeepsAddressOnly(item) == Len(item.email) > 0

\* The test and the row of each projection's loop body.
MuttKeeps(item) == Len(item.email) > 0 /\ Len(item.name) > 0
MuttRow(item) == item.email \o << TAB >> \o item.name \o << TAB >> \o item.filepath
FileKeeps(item) == Len(item.filepath) > 0
FileRow(item) == item.filepath
EmailKeeps(item) == Len(item.name) > 0 /\ Len(item.email) > 0
EmailRow(item) == item.name \o << SP, LT >> \o item.email \o << GT >>

\* Path::exists on the model's filesystem.
Exists(f, p) == p \in Directories \/ (p \in FsPaths /\ f[p] # None)

\* Path::new: the empty path is normalised to ".".
PathNew(p) == IF p = << >> THEN << "." >> ELSE p

\* The file a path string names to the operating system, relative to the
\* working directory; the empty string names nothing, "." the directory.
OsResolve(wd, p) ==
    IF p = << >> THEN << >>
    ELSE IF p = << "." >> THEN wd
    ELSE PathJoin(wd, p)

\* The argument of edit is taken as a path when it exists under MATES_DIR.
IsDirectPath(f, q) == Exists(f, PathJoin(MatesDir, q))

\* The path handed to the editor and read again afterwards.
EditTarget(res) == res[1]

\* The first argument of main_try! at each call site.
ErrMsg(c) ==
    CASE c = "index" -> "Failed to build index"
      [] c \in QueryCommands -> "Failed to execute grep"
      [] c = "add" -> "Failed to add contact"
      [] c = "edit" -> "Failed to edit contact"

\* ----------------------------------------------------------------- actions
\* cli_main: dispatch on the command, with what is printed before the
\* command's own work starts (mutt_query's empty line included); any other
\* command prints the help and, unless help was asked for, fails.
CliMain ==
    /\ pc = "cli_main"
    /\ pc' = CASE cmd = "index" -> "build_index"
               [] cmd \in QueryCommands -> "index_query"
               [] cmd = "add" -> "add_contact"
               [] cmd = "edit" -> "edit_contact"
               [] OTHER -> "exit"
    /\ stdout' = CASE cmd = "index" -> Append(stdout, << "Rebuilding index file" >>)
                   [] cmd = "mutt-query" -> Append(stdout, << >>)
                   [] cmd \in { "file-query", "email-query", "add", "edit" } -> stdout
                   [] OTHER -> Append(stdout, << "Usage" >>)
    /\ exit_status' =
          IF cmd \in { "index", "add", "edit" } \cup QueryCommands \cup HelpCommands
          THEN exit_status
          ELSE 1
    /\ UNCHANGED << cmd, query, has_editor, cwd, fs, fs0, sender, dir_kind, create_ok,
                    index_file, entries, pos, pending, linebuffer, output, yielded,
                    results, opened, contact, uid, collisions, result >>

\* main_try!: an Err is printed and sets the exit status.
MainTry ==
    /\ pc = "return"
    /\ pc' = "exit"
    /\ IF result = "Ok"
       THEN UNCHANGED << stdout, exit_status >>
       ELSE /\ stdout' = Append(stdout, << ErrMsg(cmd), ": ", result >>)
            /\ exit_status' = 1
    /\ UNCHANGED << cmd, query, has_editor, cwd, fs, fs0, sender, dir_kind, create_ok,
                    index_file, entries, pos, pending, linebuffer, output, yielded,
                    results, opened, contact, uid, collisions, result >>

\* add_contact, up to the identifier loop.
AddContact ==
    /\ pc = "add_contact"
    /\ IF sender = None
       THEN /\ result' = "Couldn't find From-header in email."
            /\ pc' = "return"
            /\ UNCHANGED contact
       ELSE /\ contact' = parse_from_header(sender[1])
            /\ pc' = "add_uid"
            /\ UNCHANGED result
    /\ UNCHANGED << cmd, query, has_editor, cwd, fs, fs0, sender, dir_kind, create_ok,
                    index_file, entries, pos, pending, linebuffer, output, yielded,
                    results, opened, uid, collisions, exit_status, stdout >>

\* The identifier loop had it taken the first identifier unchecked.
UidAcceptedUnchecked(f, path) == TRUE

\* Whether the identifier loop breaks with this candidate path.
UidAccepted(f, path) == ~Exists(f, path)

\* One turn of the identifier loop.
AddUid ==
    /\ pc = "add_uid"
    /\ \E u \in Uids :
        /\ uid' = u
        /\ IF UidAccepted(fs, PathJoin(MatesDir, VcfName(u)))
           THEN pc' = "add_write" /\ UNCHANGED collisions
           ELSE /\ pc' = "add_uid"
                /\ collisions' = IF collisions < MaxCollisions THEN collisions + 1
                                 ELSE collisions
    /\ UNCHANGED << cmd, query, has_editor, cwd, fs, fs0, sender, dir_kind, create_ok,
                    index_file, entries, pos, pending, linebuffer, output, yielded,
                    results, opened, contact, result, exit_status, stdout >>

\* add_contact, from generate_contact to the end.
AddWrite ==
    /\ pc = "add_write"
    /\ LET path == PathJoin(MatesDir, VcfName(uid))
           text == write_component(generate_contact(uid, contact.fullname, contact.email))
       IN \E io \in { "ok", "create fails", "write fails" } :
            /\ fs' = CASE io = "ok" -> [ fs EXCEPT ![path] = Some(text) ]
                       [] io = "write fails" -> [ fs EXCEPT ![path] = Some(<< >>) ]
                       [] io = "create fails" -> fs
            /\ result' = IF io = "ok" THEN "Ok" ELSE "io error"
            /\ stdout' = IF io = "ok" THEN Append(stdout, path) ELSE stdout
    /\ pc' = "return"
    /\ UNCHANGED << cmd, query, has_editor, cwd, fs0, sender, dir_kind, create_ok,
                    index_file, entries, pos, pending, linebuffer, output, yielded,
                    results, opened, contact, uid, collisions, exit_status >>

\* The scan had a parse failure left the loop like a read failure.
EntryOutcomeStopsAtGarbage(e) ==
    CASE e.kind = "dir" -> "skip"
      [] e.kind \in { "unreadable", "garbage" } -> "abort"
      [] e.kind = "card" /\ e.card.fn = None -> "warn"
      [] e.kind = "card" /\ e.card.fn # None -> "emit"

\* What the scan does with one entry: the branch of the loop body it takes.
EntryOutcome(e) ==
    CASE e.kind = "dir" -> "skip"
      [] e.kind = "unreadable" -> "abort"
      [] e.kind = "garbage" -> "report"
      [] e.kind = "card" /\ e.card.fn = None -> "warn"
      [] e.kind = "card" /\ e.card.fn # None -> "emit"

\* build_index, up to the scan.
BuildIndex ==
    /\ pc = "build_index"
    /\ IF dir_kind = "file"
       THEN /\ result' = "MATES_DIR must be a directory."
            /\ pc' = "return"
            /\ UNCHANGED index_file
       ELSE /\ index_file' = IF create_ok THEN << >> ELSE index_file
            /\ IF dir_kind = "unlistable"
               THEN result' = "io error" /\ pc' = "return"
               ELSE pc' = "scan" /\ UNCHANGED result
    /\ UNCHANGED << cmd, query, has_editor, cwd, fs, fs0, sender, dir_kind, create_ok,
                    entries, pos, pending, linebuffer, output, yielded, results,
                    opened, contact, uid, collisions, exit_status, stdout >>

\* One entry of the scan, up to the loop over its EMAIL values.
ScanEntry ==
    /\ pc = "scan"
    /\ pos <= Len(entries)
    /\ LET e == entries[pos]
           processing == Append(stdout, << "Processing " >> \o e.path)
           todo == EntryOutcome(e)
       IN CASE todo = "skip" ->
                 /\ pos' = pos + 1
                 /\ UNCHANGED << pc, pending, result, exit_status, stdout >>
            [] todo = "abort" ->
                 /\ stdout' = processing
                 /\ result' = "io error"
                 /\ pc' = "return"
                 /\ UNCHANGED << pos, pending, exit_status >>
            [] todo = "report" ->
                 /\ stdout' = Append(processing, << "Error: Failed to parse item " >> \o e.path)
                 /\ exit_status' = 1
                 /\ pos' = pos + 1
                 /\ UNCHANGED << pc, pending, result >>
            [] todo = "warn" ->
                 /\ stdout' = Append(processing, << "Warning: No name in " >> \o e.path)
                 /\ pos' = pos + 1
                 /\ UNCHANGED << pc, pending, result, exit_status >>
            [] todo = "emit" ->
                 /\ stdout' = processing
                 /\ IF e.card.emails = << >>
                    THEN pos' = pos + 1 /\ UNCHANGED << pc, pending >>
                    ELSE pc' = "emails" /\ pending' = e.card.emails /\ UNCHANGED pos
                 /\ UNCHANGED << result, exit_status >>
    /\ UNCHANGED << cmd, query, has_editor, cwd, fs, fs0, sender, dir_kind, create_ok,
                    index_file, entries, linebuffer, output, yielded, results,
                    opened, contact, uid, collisions >>

\* One EMAIL value of the current entry: a line is written to outf.
WriteEmail ==
    /\ pc = "emails"
    /\ LET e == entries[pos]
       IN \E device_ok \in BOOLEAN :
            IF create_ok /\ device_ok
            THEN /\ index_file' =
                        index_file \o IndexLine(Head(pending), e.card.fn[1], e.path)
                 /\ pending' = Tail(pending)
                 /\ IF Tail(pending) = << >>
                    THEN pc' = "scan" /\ pos' = pos + 1
                    ELSE UNCHANGED << pc, pos >>
                 /\ UNCHANGED result
            ELSE /\ result' = "io error"
                 /\ pc' = "return"
                 /\ UNCHANGED << index_file, pending, pos >>
    /\ UNCHANGED << cmd, query, has_editor, cwd, fs, fs0, sender, dir_kind, create_ok,
                    entries, linebuffer, output, yielded, results, opened, contact,
                    uid, collisions, exit_status, stdout >>

\* build_index: the scan is over.
BuildReturn ==
    /\ pc = "scan"
    /\ pos > Len(entries)
    /\ result' = "Ok"
    /\ pc' = "return"
    /\ UNCHANGED << cmd, query, has_editor, cwd, fs, fs0, sender, dir_kind, create_ok,
                    index_file, entries, pos, pending, linebuffer, output, yielded,
                    results, opened, contact, uid, collisions, exit_status, stdout >>

\* index_query: the filter runs on the index and its output is captured.
IndexQuery ==
    /\ pc = "index_query"
    /\ \E ok \in BOOLEAN :
         \E out \in (IF ok THEN Outputs ELSE { << >> }) :
            IF ok
            THEN /\ output' = Some(out)
                 /\ linebuffer' = IndexIteratorNew(out)
                 /\ pc' = "iterate"
                 /\ UNCHANGED result
            ELSE /\ result' = IF cmd = "edit" THEN "Error while fetching index" ELSE "io error"
                 /\ pc' = "return"
                 /\ UNCHANGED << output, linebuffer >>
    /\ UNCHANGED << cmd, query, has_editor, cwd, fs, fs0, sender, dir_kind, create_ok,
                    index_file, entries, pos, pending, yielded, results, opened,
                    contact, uid, collisions, exit_status, stdout >>

\* One turn of the loop that consumes the iterator: the for loops of
\* mutt_query, file_query and email_query, and edit_contact's filter_map.
Iterate ==
    /\ pc = "iterate"
    /\ LET r == IteratorNext(linebuffer)
       IN IF r.item = None
          THEN /\ IF cmd = "edit"
                  THEN pc' = "edit_resolve" /\ UNCHANGED result
                  ELSE pc' = "return" /\ result' = "Ok"
               /\ UNCHANGED << linebuffer, yielded, stdout, results >>
          ELSE LET item == r.item[1]
               IN /\ linebuffer' = r.rest
                  /\ yielded' = Append(yielded, item)
                  /\ stdout' =
                        CASE cmd = "mutt-query" /\ MuttKeeps(item) -> Append(stdout, MuttRow(item))
                          [] cmd = "file-query" /\ FileKeeps(item) -> Append(stdout, FileRow(item))
                          [] cmd = "email-query" /\ EmailKeeps(item) -> Append(stdout, EmailRow(item))
                          [] OTHER -> stdout
                  /\ results' = IF cmd = "edit" /\ FileKeeps(item)
                                THEN Append(results, item.filepath)
                                ELSE results
                  /\ UNCHANGED << pc, result >>
    /\ UNCHANGED << cmd, query, has_editor, cwd, fs, fs0, sender, dir_kind, create_ok,
                    index_file, entries, pos, pending, output, opened, contact, uid,
                    collisions, exit_status >>

\* edit_contact, up to the candidate list.
EditContact ==
    /\ pc = "edit_contact"
    /\ IF ~has_editor
       THEN /\ result' = "Either MATES_EDITOR or EDITOR has to be set."
            /\ pc' = "return"
            /\ UNCHANGED results
       ELSE IF IsDirectPath(fs, query)
       THEN /\ results' = << query >>
            /\ pc' = "edit_resolve"
            /\ UNCHANGED result
       ELSE /\ pc' = "index_query"
            /\ UNCHANGED << results, result >>
    /\ UNCHANGED << cmd, query, has_editor, cwd, fs, fs0, sender, dir_kind, create_ok,
                    index_file, entries, pos, pending, linebuffer, output, yielded,
                    opened, contact, uid, collisions, exit_status, stdout >>

\* edit_contact had it settled an ambiguous query on its first candidate.
UnambiguousTakesFirst(res) == ~(Len(res) < 1)

\* Whether edit_contact goes on to the editor with this candidate list.
Unambiguous(res) == ~(Len(res) < 1) /\ ~(Len(res) > 1)

\* edit_contact: the candidate list is checked.
EditResolve ==
    /\ pc = "edit_resolve"
    /\ IF Unambiguous(results)
       THEN pc' = "edit_spawn" /\ UNCHANGED << result, stdout >>
       ELSE IF Len(results) < 1
       THEN /\ result' = "No such contact."
            /\ pc' = "return"
            /\ UNCHANGED stdout
       ELSE /\ stdout' = stdout \o results
            /\ result' = "Ambiguous query."
            /\ pc' = "return"
    /\ UNCHANGED << cmd, query, has_editor, cwd, fs, fs0, sender, dir_kind, create_ok,
                    index_file, entries, pos, pending, linebuffer, output, yielded,
                    results, opened, contact, uid, collisions, exit_status >>

\* edit_contact: the editor runs on the target and exits.  It may leave the
\* file as it was or save one of EditedContents.
EditSpawn ==
    /\ pc = "edit_spawn"
    /\ LET file == OsResolve(cwd, EditTarget(results))
       IN \E ok \in BOOLEAN :
            IF ok
            THEN /\ opened' = Some(file)
                 /\ fs' \in IF file \in FsPaths
                            THEN { fs } \cup { [ fs EXCEPT ![file] = Some(c) ] : c \in EditedContents }
                            ELSE { fs }
                 /\ pc' = "edit_reread"
                 /\ UNCHANGED result
            ELSE /\ result' = "Error while invoking editor"
                 /\ pc' = "return"
                 /\ UNCHANGED << opened, fs >>
    /\ UNCHANGED << cmd, query, has_editor, cwd, fs0, sender, dir_kind, create_ok,
                    index_file, entries, pos, pending, linebuffer, output, yielded,
                    results, contact, uid, collisions, exit_status, stdout >>

\* edit_contact: the target is read again.
EditReread ==
    /\ pc = "edit_reread"
    /\ LET file == OsResolve(cwd, PathNew(EditTarget(results)))
       IN result' = IF file \notin FsPaths \/ fs[file] = None
                    THEN "File can't be read after user edited it"
                    ELSE IF Len(trim(fs[file][1])) = 0
                    THEN "Contact emptied, file removed."
                    ELSE "Ok"
    /\ pc' = "return"
    /\ UNCHANGED << cmd, query, has_editor, cwd, fs, fs0, sender, dir_kind, create_ok,
                    index_file, entries, pos, pending, linebuffer, output, yielded,
                    results, opened, contact, uid, collisions, exit_status, stdout >>

Next ==
    \/ CliMain
    \/ MainTry
    \/ BuildIndex
    \/ ScanEntry
    \/ WriteEmail
    \/ BuildReturn
    \/ IndexQuery
    \/ Iterate
    \/ EditContact
    \/ EditResolve
    \/ EditSpawn
    \/ EditReread
    \/ AddContact
    \/ AddUid
    \/ AddWrite

Spec == Init /\ [][Next]_vars

\* ---------------------------------------------- vocabulary of the properties
\* Number of occurrences of c in s, and the position of the k-th one
\* (0 before the first, Len(s)+1 after the last).
SepCount(s, c) == Cardinality({ i \in 1..Len(s) : s[i] = c })

NthSep(s, c, k) ==
    IF k = 0 THEN 0
    ELSE IF k > SepCount(s, c) THEN Len(s) + 1
    ELSE CHOOSE i \in 1..Len(s) :
            s[i] = c /\ Cardinality({ j \in 1..i : s[j] = c }) = k

\* The k-th piece of s between occurrences of c, "" beyond the last.
Segment(s, c, k) ==
    IF k > SepCount(s, c) + 1 THEN << >>
    ELSE SubSeq(s, NthSep(s, c, k-1) + 1, NthSep(s, c, k) - 1)

Finished == pc \in { "return", "exit" }

\* ----------------------------------------------------------------------- C9
\* The header value split as the code splits it: at its last space.
HeaderToken(s) == SubSeq(s, LastIndex(s, SP) + 1, Len(s))
HeaderPrefix(s) == SubSeq(s, 1, LastIndex(s, SP) - 1)

\* t with one leading '<' and one trailing '>' removed, if present.
StripOne(t) ==
    LET l == IF t # << >> /\ Head(t) = LT THEN Tail(t) ELSE t
    IN IF l # << >> /\ l[Len(l)] = GT THEN SubSeq(l, 1, Len(l) - 1) ELSE l

\* e is t without its leading '<'s and its trailing '>'s.
IsStripped(e, t) ==
    /\ \E i \in 1..(Len(t) + 1) : \E j \in 0..Len(t) :
          /\ e = SubSeq(t, i, j)
          /\ \A k \in 1..(i-1) : t[k] = LT
          /\ \A k \in (j+1)..Len(t) : t[k] = GT
    /\ e = << >> \/ (Head(e) # LT /\ e[Len(e)] # GT)

Parsed == cmd = "add" /\ sender # None /\ pc # "cli_main" /\ pc # "add_contact"

\* C9 as stated: parse_from_header splits at the last space; the address is
\* the trailing token less exactly one leading '<' and exactly one trailing
\* '>', the display name is everything before that token, trimmed, and is
\* absent when the value holds no space.
C9_StripsOneAndTrims ==
    Parsed =>
        LET s == sender[1]
        IN /\ contact.email = Some(StripOne(HeaderToken(s)))
           /\ contact.fullname =
                 IF LastIndex(s, SP) = 0 THEN None ELSE Some(trim(HeaderPrefix(s)))

\* C9 amended: parse_from_header splits at the last space; the address is the
\* trailing token less every leading '<' and every trailing '>', the display
\* name is everything before that last space as it stands, untrimmed, and is
\* absent when the value holds no space (the whole value, stripped the same
\* way, is then the address).
C9_StripsAllAndKeepsPrefix ==
    Parsed =>
        LET s == sender[1]
        IN /\ Len(contact.email) = 1
           /\ IsStripped(contact.email[1], HeaderToken(s))
           /\ contact.fullname =
                 IF LastIndex(s, SP) = 0 THEN None ELSE Some(HeaderPrefix(s))

\* A header whose display name ends in a space was parsed.
C9_Witness ==
    /\ Parsed
    /\ \E h \in Headers :
          /\ sender = Some(h)
          /\ LastIndex(h, SP) > 1
          /\ h[LastIndex(h, SP) - 1] = SP
          /\ contact.fullname = Some(HeaderPrefix(h))
          /\ trim(HeaderPrefix(h)) # HeaderPrefix(h)
    /\ contact.email = Some(<< "a" >>)

\* ----------------------------------------------------------------------- C6
NewContactPath == PathJoin(MatesDir, VcfName(uid))

\* C6: add_contact discards an identifier whose <identifier>.vcf exists and
\* draws another, however often; it writes only to a path that did not exist
\* when checked, leaves every file that was there unchanged, and returns no
\* error for a collision.
C6_CollisionsAreRetried ==
    cmd = "add" =>
        /\ \A p \in FsPaths : fs0[p] # None => fs[p] = fs0[p]
        /\ pc = "add_write" => fs[NewContactPath] = None
        /\ collisions > 0 => result \in { "none", "Ok", "io error" }
        /\ (Finished /\ result = "Ok") =>
              /\ fs0[NewContactPath] = None
              /\ fs[NewContactPath] =
                    Some(write_component(
                        generate_contact(uid, contact.fullname, contact.email)))
              /\ \A p \in FsPaths \ { NewContactPath } : fs[p] = fs0[p]
        /\ (Finished /\ result = "io error") =>
              /\ fs0[NewContactPath] = None
              /\ fs[NewContactPath] \in { None, Some(<< >>) }

\* A contact was created after as many collisions as the model counts.
C6_Witness ==
    /\ cmd = "add"
    /\ pc = "exit"
    /\ result = "Ok"
    /\ collisions = MaxCollisions
    /\ exit_status = 0
    /\ \E p \in FsPaths : fs0[p] # None

\* ------------------------------------------------------------------ C1, C2
\* The lines one entry owes the index: none unless it is a regular file that
\* parses and has a full name, else one per EMAIL value, in order.
RECURSIVE LinesOfCard(_, _, _)
LinesOfCard(emails, name, path) ==
    IF emails = << >> THEN << >>
    ELSE Head(emails) \o << TAB >> \o name \o << TAB >> \o path \o << NL >>
            \o LinesOfCard(Tail(emails), name, path)

LinesOwed(e) ==
    IF e.kind = "card" /\ e.card.fn # None
    THEN LinesOfCard(e.card.emails, e.card.fn[1], e.path)
    ELSE << >>

\* The lines owed by the first k entries, in scan order.
RECURSIVE ExpectedIndex(_, _)
ExpectedIndex(es, k) ==
    IF k = 0 THEN << >> ELSE ExpectedIndex(es, k-1) \o LinesOwed(es[k])

Reported(e) == << "Error: Failed to parse item " >> \o e.path \in { stdout[k] : k \in 1..Len(stdout) }

Scanned == cmd = "index" /\ dir_kind = "dir" /\ Finished

\* C1: a file that fails to parse does not stop the scan: the scan ends early
\* only on an I/O failure, never at the failing file; when it completes,
\* build_index returns Ok, every failing file has been reported, and every
\* file that parses and has a full name has all its lines in the index.
C1_ParseFailureDoesNotStopBuild ==
    Scanned =>
        /\ pos <= Len(entries) =>
              /\ entries[pos].kind \in { "unreadable", "card" }
              /\ result = "io error"
        /\ \A k \in 1..Len(entries) :
              (k < pos /\ entries[k].kind = "garbage") => Reported(entries[k])
        /\ pos > Len(entries) =>
              /\ result = "Ok"
              /\ create_ok => index_file = ExpectedIndex(entries, Len(entries))
              /\ ~create_ok => ExpectedIndex(entries, Len(entries)) = << >>

\* A build returned Ok although a file failed to parse before a valid one.
C1_Witness ==
    /\ Scanned
    /\ pc = "exit"
    /\ result = "Ok"
    /\ \E k \in 1..Len(entries) : \E j \in (k+1)..Len(entries) :
          /\ entries[k].kind = "garbage"
          /\ Reported(entries[k])
          /\ LinesOwed(entries[j]) # << >>
    /\ index_file = ExpectedIndex(entries, Len(entries))

\* C2 as stated: after a successful build_index the index file holds exactly
\* the lines (address, name, path) of every regular file that parses and has
\* a full name, in scan order, one per EMAIL value, and none for a record
\* without a full name.
C2_IndexHoldsExactlyTheLines ==
    (cmd = "index" /\ Finished /\ result = "Ok") =>
        index_file = ExpectedIndex(entries, Len(entries))

\* What does hold of C2: the same, of the builds whose index file was created.
IndexHoldsTheLinesWhenCreated ==
    (cmd = "index" /\ Finished /\ result = "Ok" /\ create_ok) =>
        index_file = ExpectedIndex(entries, Len(entries))

\* -------------------------------------------------------------- C7, C8, C10
\* The filter's output as lines: the pieces between its newlines.
LineCount(out) == SepCount(out, NL) + 1
Line(out, k) == Segment(out, NL, k)
NonEmptyLines(out) == { k \in 1..LineCount(out) : Line(out, k) # << >> }

\* The k-th tab-separated field of a line, "" when the line has fewer.
Field(line, k) == Segment(line, TAB, k)
EmptyItem == [ email |-> << >>, name |-> << >>, filepath |-> << >> ]

\* The filter's output was captured and the whole sequence consumed.
Consumed == cmd \in QueryCommands /\ Finished /\ output # None

\* C7 as stated: the sequence holds exactly one QueryResult per non-empty
\* line of the filter's output; empty lines, the empty piece after a trailing
\* newline included, produce none.
C7_OneResultPerNonEmptyLine ==
    Consumed => Len(yielded) = Cardinality(NonEmptyLines(output[1]))

\* C7 amended: the sequence holds exactly one QueryResult per piece of the
\* output between newlines, empty pieces included: k newlines give k+1
\* results, an empty piece gives a result whose three fields are empty, and
\* an output of nothing gives one such result and no error.
C7_OneResultPerLine ==
    Consumed =>
        /\ result = "Ok"
        /\ Len(yielded) = SepCount(output[1], NL) + 1
        /\ \A k \in 1..Len(yielded) :
              Line(output[1], LineCount(output[1]) + 1 - k) = << >>
                  => yielded[k] = EmptyItem
        /\ output[1] = << >> => yielded = << EmptyItem >>

\* One newline-terminated line was consumed and gave two results.
C7_Witness ==
    /\ Consumed
    /\ SepCount(output[1], NL) = 1
    /\ output[1][Len(output[1])] = NL
    /\ Len(output[1]) > 1
    /\ Len(yielded) = 2
    /\ yielded[1] = EmptyItem
    /\ yielded[2] # EmptyItem

\* The rows a projection owes for the lines l(n), l(n-1), .. l(k), in the
\* order the query engine yields them.
RECURSIVE RowsOwed(_, _, _)
RowsOwed(c, out, k) ==
    IF k > LineCount(out) THEN << >>
    ELSE LET l == Line(out, k)
             address == Field(l, 1)
             name == Field(l, 2)
             filepath == Field(l, 3)
             row == CASE c = "mutt-query" ->
                           IF name # << >> /\ address # << >>
                           THEN << address \o << TAB >> \o name \o << TAB >> \o filepath >>
                           ELSE << >>
                      [] c = "file-query" ->
                           IF filepath # << >> THEN << filepath >> ELSE << >>
                      [] c = "email-query" ->
                           IF name # << >> /\ address # << >>
                           THEN << name \o << SP, LT >> \o address \o << GT >> >>
                           ELSE << >>
         IN RowsOwed(c, out, k + 1) \o row

\* What a projection prints before its rows: mutt_query's empty line.
Preamble(c) == IF c = "mutt-query" THEN << << >> >> ELSE << >>

\* C8: whatever the filter prints, each projection returns Ok and prints
\* exactly the rows that have its fields: mutt_query those with name and
\* address, file_query those with a filepath, email_query "name <address>"
\* for those with name and address.
C8_ProjectionsFilterRows ==
    Consumed =>
        /\ result = "Ok"
        /\ stdout = Preamble(cmd) \o RowsOwed(cmd, output[1], 1)
        /\ exit_status = 0

\* mutt_query printed one row and dropped a short line and an empty one.
C8_Witness ==
    /\ Consumed
    /\ cmd = "mutt-query"
    /\ Len(yielded) = 3
    /\ Len(stdout) = 2
    /\ stdout[2] = << "a", TAB, "n", TAB >> \o P1
    /\ \E k \in 1..3 : yielded[k].name = << >> /\ yielded[k].email # << >>

\* C10: the sequence is finite and single-pass and reverses the filter's
\* lines: the i-th item that next returns is parsed from line n+1-i of the n
\* lines, each line is returned once, and next returns None once n items
\* were returned.
C10_ReverseOrder ==
    output # None =>
        LET n == LineCount(output[1])
        IN /\ Len(yielded) + Len(linebuffer) = n
           /\ \A i \in 1..Len(yielded) :
                 /\ yielded[i].email = Field(Line(output[1], n + 1 - i), 1)
                 /\ yielded[i].name = Field(Line(output[1], n + 1 - i), 2)
                 /\ yielded[i].filepath = Field(Line(output[1], n + 1 - i), 3)
           /\ Len(yielded) = n =>
                 /\ IteratorNext(linebuffer).item = None
                 /\ IteratorNext(linebuffer).rest = linebuffer
           /\ pc # "iterate" => Len(yielded) = n

\* Two different lines were returned, the later one first, and the iterator
\* is exhausted.
C10_Witness ==
    /\ output # None
    /\ pc # "iterate"
    /\ LineCount(output[1]) = 2
    /\ Len(yielded) = 2
    /\ yielded[1] # yielded[2]
    /\ yielded[1].email = Field(Line(output[1], 2), 1)
    /\ yielded[1].filepath # << >>
    /\ linebuffer = << >>

\* ------------------------------------------------------------- C3, C4, C5
\* The lines of the filter's output that carry a filepath: what the
\* filepath-only projection yields.
Candidates(out) == { k \in 1..LineCount(out) : Field(Line(out, k), 3) # << >> }

\* edit was given something that is no existing path under MATES_DIR, and
\* the index was queried for it.
Searched ==
    /\ cmd = "edit"
    /\ ~Exists(fs0, PathJoin(MatesDir, query))
    /\ output # None

Printed(line) == \E k \in 1..Len(stdout) : stdout[k] = line

\* C4: when the argument is no existing path under the contact directory,
\* the editor is started only if the query yields exactly one path; no
\* match ends in "No such contact.", several in "Ambiguous query." after
\* every candidate was printed, and in both cases no editor ran and no file
\* changed.
C4_EditorOnlyOnSingleMatch ==
    Searched =>
        LET n == Cardinality(Candidates(output[1]))
        IN /\ (opened # None \/ pc \in { "edit_spawn", "edit_reread" }) => n = 1
           /\ (Finished /\ n = 0) =>
                 result = "No such contact." /\ opened = None /\ fs = fs0
           /\ (Finished /\ n > 1) =>
                 /\ result = "Ambiguous query."
                 /\ opened = None
                 /\ fs = fs0
                 /\ \A k \in Candidates(output[1]) : Printed(Field(Line(output[1], k), 3))
           /\ (pc = "exit" /\ (n = 0 \/ n > 1)) => exit_status = 1

\* An ambiguous query was refused with both candidates printed.
C4_Witness ==
    /\ Searched
    /\ pc = "exit"
    /\ Cardinality(Candidates(output[1])) = 2
    /\ result = "Ambiguous query."
    /\ Printed(P1)
    /\ Printed(P2)
    /\ opened = None

\* A query without a match was refused.
C4_WitnessNoMatch ==
    /\ Searched
    /\ pc = "exit"
    /\ LineCount(output[1]) > 1
    /\ Candidates(output[1]) = { }
    /\ result = "No such contact."

\* C3 as stated: once the editor has exited, a file whose trimmed content is
\* empty is deleted and the outcome is a distinct one that is no error; a
\* file whose content is not empty is still there and the outcome is Ok.
C3_EmptiedFileIsDeleted ==
    (cmd = "edit" /\ Finished /\ opened # None /\ opened[1] \in FsPaths) =>
        LET file == opened[1]
        IN /\ fs[file] # None => (Len(trim(fs[file][1])) > 0 /\ result = "Ok")
           /\ result = "Contact emptied, file removed." =>
                 (fs[file] = None /\ (pc = "exit" => exit_status = 0))

\* C5 as stated: when the argument joined to the contact directory names an
\* existing file directly under it, no query is run and the file the editor
\* opens, and that is read again, is that file.
C5_DirectPathOpensThatFile ==
    (/\ cmd = "edit"
     /\ has_editor
     /\ PathJoin(MatesDir, query) \in FsPaths
     /\ fs0[PathJoin(MatesDir, query)] # None) =>
        /\ output = None
        /\ pc # "index_query" /\ pc # "iterate"
        /\ opened # None => opened[1] = PathJoin(MatesDir, query)

\* C5, the empty argument: it names the directory, not a file in it, so it
\* is not taken as the target.
C5_EmptyArgumentIsNoTarget ==
    (cmd = "edit" /\ query = << >>) => pc \notin { "edit_spawn", "edit_reread" } /\ opened = None

====
